---- MODULE Spec2Model ----
(***************************************************************************)
(* Model of src/src/main.rs: a 3x3 grid shown as a ratatui table, a        *)
(* (row, column) cursor moved by key events, and the draw / read loop of   *)
(* App::run called from main.                                              *)
(*                                                                         *)
(* Vectors are modelled as functions over 0..len-1 so that indices read    *)
(* as in the source.  Option<usize> is modelled as a sequence: None is     *)
(* <<>> and Some(i) is <<i>>.                                              *)
(***************************************************************************)
EXTENDS Integers, Sequences, FiniteSets, TLC

VARIABLES
    app,      \* the App value owned by run: state, items, colors, placement
    frame,    \* what the last call of App::draw put on the frame
    pc,       \* position of main/run: "draw", "read", "restore", "exit"
    result,   \* the value run returned: "none" while running, "ok", "err"
    restored, \* number of calls of ratatui::restore
    trail,    \* the last TrailLen cursor operations run has applied
    dropped,  \* TRUE once the trail has dropped an operation it was too short for
    twin,     \* the App of a second run of the program that is sent the same
              \* events on a terminal of its own (it moves in SpecTwin only)
    failed    \* TRUE once terminal.draw or event::read has returned an error

vars == <<app, frame, pc, result, restored, trail, dropped, twin, failed>>

----------------------------------------------------------------------------
(* Bounds of the model *)

\* widest terminal a frame is drawn at
MaxWidth == 40
\* tallest terminal a frame is drawn at
MaxHeight == 24

----------------------------------------------------------------------------
(* Helpers for Rust values *)

None == <<>>
Some(i) == <<i>>

vec(s) == [i \in 0..(Len(s) - 1) |-> s[i + 1]]
len(v) == Cardinality(DOMAIN v)

Rect(x, y, w, h) == [x |-> x, y |-> y, width |-> w, height |-> h]

Min(a, b) == IF a < b THEN a ELSE b

----------------------------------------------------------------------------
(* Program constants *)

min_width == 30
min_height == 10

PALETTES == vec(<<"BLUE", "EMERALD", "INDIGO", "RED">>)

TableColors_new(color) ==
    [buffer_bg                |-> "SLATE.c950",
     row_fg                   |-> "SLATE.c200",
     selected_row_style_fg    |-> color \o ".c400",
     selected_column_style_fg |-> color \o ".c400",
     selected_cell_style_fg   |-> color \o ".c600",
     normal_row_color         |-> "SLATE.c950",
     alt_row_color            |-> "SLATE.c900"]

\* TableState::default().with_selected(0)
TableState_default ==
    [offset |-> 0, selected |-> None, selected_column |-> None]
with_selected(st, i) == [st EXCEPT !.selected = Some(i)]

App_new ==
    [state     |-> with_selected(TableState_default, 0),
     items     |-> vec(<<vec(<<"1", "2", "3">>),
                         vec(<<"4", "5", "6">>),
                         vec(<<"7", "8", "9">>)>>),
     colors    |-> TableColors_new(PALETTES[0]),
     placement |-> vec(<<1, 1>>)]

----------------------------------------------------------------------------
(* The four cursor operations *)

\* next_row with the new row written to the column slot of placement
next_row_wrong_slot(self) ==
    LET i == IF self.state.selected # None
             THEN (IF self.state.selected[1] >= len(self.items) - 1
                   THEN 0
                   ELSE self.state.selected[1] + 1)
             ELSE 0
    IN [self EXCEPT !.placement[1] = i]

next_row(self) ==
    LET i == IF self.state.selected # None
             THEN (IF self.state.selected[1] >= len(self.items) - 1
                   THEN 0
                   ELSE self.state.selected[1] + 1)
             ELSE 0
    IN [self EXCEPT !.placement[0] = i]

previous_row(self) ==
    LET i == IF self.state.selected # None
             THEN (IF self.state.selected[1] = 0
                   THEN len(self.items) - 1
                   ELSE self.state.selected[1] - 1)
             ELSE 0
    IN [self EXCEPT !.placement[0] = i]

\* next_column that wraps one column too late
next_column_late(self) ==
    IF self.placement[1] = 3
    THEN [self EXCEPT !.placement[1] = 0]
    ELSE [self EXCEPT !.placement[1] = self.placement[1] + 1]

next_column(self) ==
    IF self.placement[1] = 2
    THEN [self EXCEPT !.placement[1] = 0]
    ELSE [self EXCEPT !.placement[1] = self.placement[1] + 1]

\* previous_column that wraps to the number of columns, not the last column
previous_column_len(self) ==
    IF self.placement[1] = 0
    THEN [self EXCEPT !.placement[1] = 3]
    ELSE [self EXCEPT !.placement[1] = self.placement[1] - 1]

previous_column(self) ==
    IF self.placement[1] = 0
    THEN [self EXCEPT !.placement[1] = 2]
    ELSE [self EXCEPT !.placement[1] = self.placement[1] - 1]

----------------------------------------------------------------------------
(* Styles: a Style is a patch, the fields it leaves unset keep the value   *)
(* of the style below it (ratatui Style::patch, used by Buffer::set_style) *)

Style_default == [fg |-> None, bg |-> None, add_modifier |-> {}]
fg(style, color) == [style EXCEPT !.fg = Some(color)]
bg(style, color) == [style EXCEPT !.bg = Some(color)]
add_modifier(style, m) == [style EXCEPT !.add_modifier = @ \cup {m}]

patch(style, other) ==
    [fg           |-> IF other.fg # None THEN other.fg ELSE style.fg,
     bg           |-> IF other.bg # None THEN other.bg ELSE style.bg,
     add_modifier |-> style.add_modifier \cup other.add_modifier]

RECURSIVE patch_all(_, _)
patch_all(style, others) ==
    IF others = <<>> THEN style
    ELSE patch_all(patch(style, Head(others)), Tail(others))

----------------------------------------------------------------------------
(* Layout *)

\* One segment of the given length, Flex::Center, inside [start, start+avail)
center_1d(start, avail, length) ==
    LET size == Min(length, avail)
    IN [start |-> start + ((avail - size + 1) \div 2), size |-> size]

\* Constraint::Length(n) is <<"Length", n>>, Constraint::Percentage(p) is
\* <<"Percentage", p>>
apply(constraint, avail) ==
    IF constraint[1] = "Percentage" THEN (constraint[2] * avail) \div 100
    ELSE constraint[2]

center(area, horizontal, vertical) ==
    LET h == center_1d(area.x, area.width, apply(horizontal, area.width))
        v == center_1d(area.y, area.height, apply(vertical, area.height))
    IN Rect(h.start, v.start, h.size, v.size)

\* the layout without Flex::Center on the vertical split: the block starts
\* at the top of the area
calculate_layout_top(area) ==
    LET title_h == Min(1, area.height)
        main_h == Min(9, area.height - title_h)
        title_area == Rect(area.x, area.y, area.width, title_h)
        main_area == Rect(area.x, area.y + title_h, area.width, main_h)
    IN <<center(title_area, <<"Length", 30>>, <<"Length", 1>>),
         center(main_area, <<"Length", 30>>, <<"Length", 9>>)>>

\* Layout::vertical([Max(1), Max(9)]).flex(Flex::Center): the two segments
\* stacked, centred as one block
calculate_layout(area) ==
    LET title_h == Min(1, area.height)
        main_h == Min(9, area.height - title_h)
        block == center_1d(area.y, area.height, title_h + main_h)
        title_area == Rect(area.x, block.start, area.width, title_h)
        main_area == Rect(area.x, block.start + title_h, area.width, main_h)
    IN <<center(title_area, <<"Length", 30>>, <<"Length", 1>>),
         center(main_area, <<"Length", 30>>, <<"Length", 9>>)>>

----------------------------------------------------------------------------
(* Drawing *)

\* TableState::select / select_column
select(st, index) ==
    IF index = None THEN [st EXCEPT !.selected = None, !.offset = 0]
    ELSE [st EXCEPT !.selected = index]
\* a select_column that leaves the selection as it is
select_column_ignored(st, index) == st
select_column(st, index) == [st EXCEPT !.selected_column = index]

render_title(self, area) ==
    [kind |-> "title", text |-> "You VS Bot", area |-> area]

\* the stateful render without the cell highlight
highlight_layers_no_cell(st, i, j) ==
    LET in_row == st.selected = Some(i)
        in_col == st.selected_column = Some(j)
    IN (IF in_row THEN <<"row">> ELSE <<>>)
       \o (IF in_col THEN <<"column">> ELSE <<>>)

\* The highlight layers the stateful render of the table puts on the cell
\* (i, j) for the selection st, in the order it applies them: the row
\* highlight on the selected row, the column highlight on the selected
\* column, the cell highlight where the two meet
highlight_layers(st, i, j) ==
    LET in_row == st.selected = Some(i)
        in_col == st.selected_column = Some(j)
    IN (IF in_row THEN <<"row">> ELSE <<>>)
       \o (IF in_col THEN <<"column">> ELSE <<>>)
       \o (IF in_row /\ in_col THEN <<"cell">> ELSE <<>>)

\* The cells of the table widget built by render_table, as rendered for the
\* selection st
render_table_cells(self, st) ==
    LET selected_row_style ==
            fg(add_modifier(Style_default, "REVERSED"),
               self.colors.selected_row_style_fg)
        selected_col_style ==
            fg(Style_default, self.colors.selected_column_style_fg)
        selected_cell_style ==
            fg(add_modifier(Style_default, "REVERSED"),
               self.colors.selected_cell_style_fg)
        color(i) == IF i % 2 = 0 THEN self.colors.normal_row_color
                    ELSE self.colors.alt_row_color
        row_style(i) == bg(fg(Style_default, self.colors.row_fg), color(i))
        table_style == bg(Style_default, self.colors.buffer_bg)
        layers(i, j) == highlight_layers(st, i, j)
        layer_style(l) == CASE l = "row" -> selected_row_style
                            [] l = "column" -> selected_col_style
                            [] l = "cell" -> selected_cell_style
        over(i, j) == [k \in 1..Len(layers(i, j)) |-> layer_style(layers(i, j)[k])]
    IN [i \in DOMAIN self.items |->
          [j \in DOMAIN self.items[i] |->
             [content |-> "\n" \o self.items[i][j],
              base    |-> patch(table_style, row_style(i)),
              layers  |-> layers(i, j),
              style   |-> patch_all(patch(table_style, row_style(i)), over(i, j))]]]

\* Table::render clamps a selection that lies beyond the rows or columns
render_table_state(self, st) ==
    LET rows == len(self.items)
        s1 == IF st.selected # None /\ st.selected[1] >= rows
              THEN select(st, Some(rows - 1)) ELSE st
        s2 == IF s1.selected_column # None /\ s1.selected_column[1] >= 3
              THEN select_column(s1, Some(2)) ELSE s1
    IN s2

render_table(self, area) ==
    LET st == render_table_state(self, self.state)
    IN [self   |-> [self EXCEPT !.state = st],
        widget |-> [kind  |-> "table", area |-> area,
                    cells |-> render_table_cells(self, st)]]

\* the size gate with "and" for "or"
too_small_both(area) == area.width < min_width /\ area.height < min_height

\* the size gate of draw
too_small(area) == area.width < min_width \/ area.height < min_height

draw(self, area) ==
    IF too_small(area)
    THEN [self  |-> self,
          frame |-> [area    |-> area,
                     widgets |-> <<[kind |-> "warning",
                                    text |-> "Terminal size too small.\nMinimum size is 30x10.",
                                    area |-> center(area, <<"Percentage", 100>>, <<"Length", 2>>)]>>]]
    ELSE LET layout == calculate_layout(area)
             s1 == [self EXCEPT !.state = select(@, Some(self.placement[0]))]
             s2 == [s1 EXCEPT !.state = select_column(@, Some(s1.placement[1]))]
             title == render_title(s2, layout[1])
             table == render_table(s2, layout[2])
         IN [self  |-> table.self,
             frame |-> [area |-> area, widgets |-> <<title, table.widget>>]]

----------------------------------------------------------------------------
(* Input events *)

KeyCodes == {"q", "Esc", "c", "s", "Down", "w", "Up", "d", "Right", "a",
             "Left", "x", "Enter"}
KeyModifiers == SUBSET {"CONTROL", "SHIFT"}
KeyEventKinds == {"Press", "Release", "Repeat"}

KeyEvents == [type : {"Key"}, code : KeyCodes, modifiers : KeyModifiers,
              kind : KeyEventKinds]
OtherEvents == {[type |-> "Resize"], [type |-> "FocusGained"], [type |-> "Mouse"]}
Events == KeyEvents \cup OtherEvents

\* the match without Esc in its first arm
key_match_no_esc(key) ==
    CASE key.code \in {"q"}
         \/ (key.modifiers = {"CONTROL"} /\ key.code = "c") -> "quit"
      [] OTHER ->
    CASE key.code \in {"s", "Down"}  -> "next_row"
      [] key.code \in {"w", "Up"}    -> "previous_row"
      [] key.code \in {"d", "Right"} -> "next_column"
      [] key.code \in {"a", "Left"}  -> "previous_column"
      [] OTHER -> "none"

\* the match with the arms of the two row operations exchanged
key_match_rows_swapped(key) ==
    CASE key.code \in {"q", "Esc"}
         \/ (key.modifiers = {"CONTROL"} /\ key.code = "c") -> "quit"
      [] OTHER ->
    CASE key.code \in {"s", "Down"}  -> "previous_row"
      [] key.code \in {"w", "Up"}    -> "next_row"
      [] key.code \in {"d", "Right"} -> "next_column"
      [] key.code \in {"a", "Left"}  -> "previous_column"
      [] OTHER -> "none"

\* The match of run on (key.modifiers, key.code), first arm first
key_match(key) ==
    CASE key.code \in {"q", "Esc"}
         \/ (key.modifiers = {"CONTROL"} /\ key.code = "c") -> "quit"
      [] OTHER ->
    CASE key.code \in {"s", "Down"}  -> "next_row"
      [] key.code \in {"w", "Up"}    -> "previous_row"
      [] key.code \in {"d", "Right"} -> "next_column"
      [] key.code \in {"a", "Left"}  -> "previous_column"
      [] OTHER -> "none"

\* the handling without the test of key.kind
handle_any_kind(e) ==
    IF e.type = "Key" THEN key_match(e) ELSE "none"

\* What run does with the event it has read
handle(e) ==
    IF e.type = "Key" /\ e.kind = "Press" THEN key_match(e) ELSE "none"

\* The trail remembers as many cursor operations as the grid has rows (and
\* columns): the longest run of operations a property of the cursor speaks of
TrailLen == len(App_new.items)

Ops == {"next_row", "previous_row", "next_column", "previous_column"}

apply_op(op, self) ==
    CASE op = "next_row"        -> next_row(self)
      [] op = "previous_row"    -> previous_row(self)
      [] op = "next_column"     -> next_column(self)
      [] op = "previous_column" -> previous_column(self)

\* the trail keeps the last TrailLen operations, each with the placement
\* it found
push(tr, entry) ==
    LET t == Append(tr, entry)
    IN IF Len(t) > TrailLen THEN Tail(t) ELSE t

----------------------------------------------------------------------------
(* The state machine: main after ratatui::init and App::new, then run *)

\* Terminal sizes a frame is drawn at: just below each threshold, at it, and
\* a larger terminal
Widths == {min_width - 1, min_width, MaxWidth}
Heights == {min_height - 1, min_height, MaxHeight}

Init ==
    /\ app = App_new
    /\ frame = [area |-> Rect(0, 0, 0, 0), widgets |-> <<>>]
    /\ pc = "draw"
    /\ result = "none"
    /\ restored = 0
    /\ trail = <<>>
    /\ dropped = FALSE
    /\ twin = App_new
    /\ failed = FALSE

\* terminal.draw(|frame| self.draw(frame)) succeeds on a terminal whose
\* size is drawn from W x H
DrawAt(W, H) ==
    /\ pc = "draw"
    /\ \E w \in W, h \in H :
         LET d == draw(app, Rect(0, 0, w, h))
         IN /\ app' = d.self
            /\ frame' = d.frame
    /\ pc' = "read"
    /\ UNCHANGED <<result, restored, trail, dropped, failed>>

Draw == DrawAt(Widths, Heights) /\ UNCHANGED twin

\* terminal.draw fails and run returns the error. It fails either before
\* it calls the closure, and then App::draw has not run: the App and the
\* frame are as they were; or after the closure (the flush), and then
\* App::draw has run to its end on the frame it was given: it has set the
\* selection and rendered its widgets on that frame
DrawErr ==
    /\ pc = "draw"
    /\ \E d \in {[self |-> app, frame |-> frame]}
                \cup {draw(app, Rect(0, 0, w, h)) : w \in Widths, h \in Heights} :
         /\ app' = d.self
         /\ frame' = d.frame
    /\ pc' = "restore"
    /\ result' = "err"
    /\ failed' = TRUE
    /\ UNCHANGED <<restored, trail, dropped, twin>>

\* a loop that reads the next event right after a cursor operation
loop_next_no_draw(op) ==
    IF op = "quit" THEN "restore" ELSE IF op = "none" THEN "draw" ELSE "read"

\* Where run goes once the match has taken the arm op: out of the loop on
\* the quit arm, back to the top of the loop on every other arm
loop_next(op) == IF op = "quit" THEN "restore" ELSE "draw"

\* The body of run after event::read has returned an event that handle
\* maps to op
Handled(op) ==
    /\ pc = "read"
    /\ pc' = loop_next(op)
    /\ CASE op = "quit" ->
              /\ result' = "ok"
              /\ UNCHANGED <<app, trail, dropped>>
         [] op \in Ops ->
              /\ app' = apply_op(op, app)
              /\ trail' = push(trail, [op |-> op, before |-> app.placement])
              /\ dropped' = (dropped \/ Len(trail) = TrailLen)
              /\ UNCHANGED result
         [] OTHER ->
              /\ UNCHANGED <<app, trail, dropped, result>>
    /\ UNCHANGED <<frame, restored, twin, failed>>

\* event::read returns the event e and run handles it
ReadEvent(e) == Handled(handle(e))

\* event::read succeeds and the event is handled: ReadEvent(e) for some
\* event e
Read == \E op \in {handle(e) : e \in Events} : Handled(op)

\* event::read fails and run goes on with the loop as if it had read an
\* event it ignores
ReadErr_swallowed ==
    /\ pc = "read"
    /\ pc' = "draw"
    /\ failed' = TRUE
    /\ UNCHANGED <<app, frame, result, restored, trail, dropped, twin>>

\* event::read fails and run returns the error
ReadErr ==
    /\ pc = "read"
    /\ pc' = "restore"
    /\ result' = "err"
    /\ failed' = TRUE
    /\ UNCHANGED <<app, frame, restored, trail, dropped, twin>>

\* main that restores the terminal only when run has returned Ok
Restore_ok_only ==
    /\ pc = "restore"
    /\ restored' = IF result = "ok" THEN restored + 1 ELSE restored
    /\ pc' = "exit"
    /\ UNCHANGED <<app, frame, result, trail, dropped, twin, failed>>

\* main: ratatui::restore() and return of the result
Restore ==
    /\ pc = "restore"
    /\ restored' = restored + 1
    /\ pc' = "exit"
    /\ UNCHANGED <<app, frame, result, trail, dropped, twin, failed>>

Next == Draw \/ DrawErr \/ Read \/ ReadErr \/ Restore

Spec == Init /\ [][Next]_vars

\* The same program on a terminal that is never smaller than 30x10
DrawLarge ==
    /\ DrawAt({w \in Widths : w >= min_width}, {h \in Heights : h >= min_height})
    /\ UNCHANGED twin

NextLarge == DrawLarge \/ DrawErr \/ Read \/ ReadErr \/ Restore

SpecLarge == Init /\ [][NextLarge]_vars

\* Two runs of the program that are sent the same events, each on a
\* terminal of its own: app is the App of the first, twin of the second.
\* The trail of the first run is not kept here.
TwinDraw ==
    /\ pc = "draw"
    /\ \E w \in Widths, h \in Heights :
         LET d == draw(app, Rect(0, 0, w, h))
         IN /\ app' = d.self
            /\ frame' = d.frame
    /\ \E w \in Widths, h \in Heights :
         twin' = draw(twin, Rect(0, 0, w, h)).self
    /\ pc' = "read"
    /\ UNCHANGED <<result, restored, trail, dropped, failed>>

TwinRead ==
    /\ pc = "read"
    /\ \E op \in {handle(e) : e \in Events} :
         /\ pc' = loop_next(op)
         /\ CASE op = "quit" ->
                   /\ result' = "ok"
                   /\ UNCHANGED <<app, twin>>
              [] op \in Ops ->
                   /\ app' = apply_op(op, app)
                   /\ twin' = apply_op(op, twin)
                   /\ UNCHANGED result
              [] OTHER ->
                   /\ UNCHANGED <<app, twin, result>>
    /\ UNCHANGED <<frame, restored, trail, dropped, failed>>

NextTwin == TwinDraw \/ TwinRead \/ Restore

SpecTwin == Init /\ [][NextTwin]_vars

\* The program on a terminal that is resized at will, to any size from just
\* below the thresholds up to MaxWidth x MaxHeight, and is sent no other
\* event
DrawResized ==
    /\ DrawAt((min_width - 2)..MaxWidth, (min_height - 2)..MaxHeight)
    /\ UNCHANGED twin

ReadResize == ReadEvent([type |-> "Resize"])

NextResize == DrawResized \/ ReadResize

SpecResize == Init /\ [][NextResize]_vars

TypeOK ==
    /\ pc \in {"draw", "read", "restore", "exit"}
    /\ result \in {"none", "ok", "err"}
    /\ restored \in 0..1
    /\ Len(trail) <= TrailLen

----------------------------------------------------------------------------
(* Vocabulary of the properties *)

row == app.placement[0]
column == app.placement[1]

\* the cursor operation applied last, and the k-th last
Last == trail[Len(trail)]
Back(k) == trail[Len(trail) - k]

\* the last n operations of the trail were all op
Repeated(op, n) ==
    /\ Len(trail) >= n
    /\ \A k \in 0..(n - 1) : Back(k).op = op

\* the last two operations were first, then second
Pair(first, second) ==
    /\ Len(trail) >= 2
    /\ Back(1).op = first
    /\ Back(0).op = second

wrap_next(x) == IF x = 2 THEN 0 ELSE x + 1
wrap_previous(x) == IF x = 0 THEN 2 ELSE x - 1

\* what a frame shows
Kinds(f) == [k \in 1..Len(f.widgets) |-> f.widgets[k].kind]
Shows(f, kind) == \E k \in 1..Len(f.widgets) : f.widgets[k].kind = kind
IsFallback(f) == Kinds(f) = <<"warning">>
IsNormal(f) == Kinds(f) = <<"title", "table">>
Cells(f) == f.widgets[2].cells
Layers(f, i, j) == Cells(f)[i][j].layers
\* the cells that carry the cell highlight
Highlighted(f) ==
    {ij \in (0..2) \X (0..2) :
        \E k \in 1..Len(Layers(f, ij[1], ij[2])) : Layers(f, ij[1], ij[2])[k] = "cell"}

----------------------------------------------------------------------------
(* Cursor transitions *)

\* C1: whenever next_row has just been applied, the cursor row is 0 if it
\* was 2 before the call and one more otherwise; whenever previous_row has
\* just been applied, it is 2 if it was 0 before and one less otherwise
C1_RowRule ==
    trail # <<>> =>
        /\ Last.op = "next_row" => row = wrap_next(Last.before[0])
        /\ Last.op = "previous_row" => row = wrap_previous(Last.before[0])

\* C2: whenever next_column has just been applied, the cursor column is 0
\* if it was 2 before the call and one more otherwise; whenever
\* previous_column has just been applied, it is 2 if it was 0 before and one
\* less otherwise
C2_ColumnRule ==
    trail # <<>> =>
        /\ Last.op = "next_column" => column = wrap_next(Last.before[1])
        /\ Last.op = "previous_column" => column = wrap_previous(Last.before[1])

\* next_column has wrapped from column 2 to 0 and previous_column has then
\* wrapped from 0 back to 2
C2_Witness ==
    /\ Pair("next_column", "previous_column")
    /\ Back(1).before[1] = 2
    /\ Back(0).before[1] = 0
    /\ column = 2

\* C3: in every state the cursor row and column lie in 0..2, in placement
\* and in the table selection when it is set, and the row selection is set
C3_Bounds ==
    /\ row \in 0..2
    /\ column \in 0..2
    /\ app.state.selected # None
    /\ app.state.selected[1] \in 0..2
    /\ app.state.selected_column # None => app.state.selected_column[1] \in 0..2

\* a previous_row and a next_column have wrapped, and a frame has since put
\* the cursor into the table selection at row 2
C3_Witness ==
    /\ Pair("previous_row", "next_column")
    /\ Back(1).before[0] = 0
    /\ Back(0).before[1] = 2
    /\ pc = "read"
    /\ app.state.selected = Some(2)
    /\ app.state.selected_column = Some(0)

\* C4: after three applications in succession of one of the four
\* operations, the coordinate it moves has the value it had before the
\* first of the three
C4_Cyclic ==
    /\ \A op \in {"next_row", "previous_row"} :
         Repeated(op, 3) => row = Back(2).before[0]
    /\ \A op \in {"next_column", "previous_column"} :
         Repeated(op, 3) => column = Back(2).before[1]

\* C5: after next_row then previous_row, or previous_row then next_row, the
\* cursor row is what it was before the pair; likewise the cursor column
\* after next_column then previous_column, or the reverse
C5_Inverse ==
    /\ Pair("next_row", "previous_row") => row = Back(1).before[0]
    /\ Pair("previous_row", "next_row") => row = Back(1).before[0]
    /\ Pair("next_column", "previous_column") => column = Back(1).before[1]
    /\ Pair("previous_column", "next_column") => column = Back(1).before[1]

\* C6: a row operation leaves the cursor column as it found it, a column
\* operation leaves the cursor row as it found it, and no step that handles
\* an event changes the grid items or the colours
C6_AxisIndependence ==
    /\ [](trail # <<>> =>
            /\ Last.op \in {"next_row", "previous_row"} => column = Last.before[1]
            /\ Last.op \in {"next_column", "previous_column"} => row = Last.before[0])
    /\ [][pc = "read" => /\ app'.items = app.items
                         /\ app'.colors = app.colors]_vars

\* a row operation has moved the row while the column was not 0, then a
\* column operation has moved the column while the row was not 0
C6_Witness ==
    /\ Pair("next_row", "previous_column")
    /\ Back(1).before[1] # 0
    /\ Back(1).before[0] # Back(0).before[0]
    /\ Back(0).before[0] # 0
    /\ column # Back(0).before[1]

----------------------------------------------------------------------------
(* Start-up and the end-to-end scenario *)

\* C7: a frame drawn in the normal view before any cursor operation
\* highlights the cell (0,0), the position the cursor is created at
C7_InitialPosition ==
    (trail = <<>> /\ pc = "read" /\ IsNormal(frame)) =>
        /\ Highlighted(frame) = {<<0, 0>>}
        /\ app.placement = vec(<<0, 0>>)

\* C8: on a terminal of at least 30x10, when the only cursor operations
\* applied since construction are those of Down, Down, Right, the cursor is
\* at (2,1), and the frame then drawn highlights the cell showing 8
C8_Scenario ==
    (/\ ~dropped
     /\ [k \in 1..Len(trail) |-> trail[k].op] = <<"next_row", "next_row", "next_column">>) =>
        /\ app.placement = vec(<<2, 1>>)
        /\ (pc = "read" /\ IsNormal(frame)) =>
              \A ij \in Highlighted(frame) : Cells(frame)[ij[1]][ij[2]].content = "\n8"

----------------------------------------------------------------------------
(* Frames *)

\* C9: every frame drawn shows exactly one of the two views: the warning
\* alone when the area is narrower than 30 or lower than 10, the title and
\* the table without the warning otherwise
C9_RenderGate ==
    frame.widgets # <<>> =>
        /\ (frame.area.width < 30 \/ frame.area.height < 10) =>
              /\ IsFallback(frame)
              /\ ~Shows(frame, "title") /\ ~Shows(frame, "table")
        /\ (frame.area.width >= 30 /\ frame.area.height >= 10) =>
              /\ IsNormal(frame)
              /\ ~Shows(frame, "warning")
        /\ IsFallback(frame) # IsNormal(frame)

\* a frame on a terminal wide enough but one line too low shows the warning
C9_Witness ==
    /\ frame.area.width >= 30
    /\ frame.area.height = 9
    /\ IsFallback(frame)

\* C10: in the frame just drawn in the normal view with the cursor at
\* (r, c), the cell (r, c) carries the row, column and cell highlights, the
\* other cells of row r the row highlight alone, the other cells of column
\* c the column highlight alone, and every other cell no highlight: its
\* style is its base style, whose background is the normal colour on even
\* rows and the alt colour on odd rows, for every cell
C10_Overlay ==
    (pc = "read" /\ IsNormal(frame)) =>
        \A i \in 0..2, j \in 0..2 :
            LET cell == Cells(frame)[i][j]
            IN /\ (i = row /\ j = column) => cell.layers = <<"row", "column", "cell">>
               /\ (i = row /\ j # column) => cell.layers = <<"row">>
               /\ (i # row /\ j = column) => cell.layers = <<"column">>
               /\ (i # row /\ j # column) =>
                     (cell.layers = <<>> /\ cell.style = cell.base)
               /\ cell.base.bg = Some(IF i % 2 = 0 THEN app.colors.normal_row_color
                                      ELSE app.colors.alt_row_color)

\* a normal frame has just been drawn with the cursor moved off the centre,
\* to the cell (2,0)
C10_Witness ==
    /\ pc = "read"
    /\ IsNormal(frame)
    /\ trail # <<>>
    /\ row = 2 /\ column = 0
    /\ Highlighted(frame) = {<<2, 0>>}

----------------------------------------------------------------------------
(* Events *)

\* the key presses with one of the codes and one of the modifier sets
Press(codes, mods) ==
    {e \in KeyEvents : e.kind = "Press" /\ e.code \in codes /\ e.modifiers \in mods}

\* q or Esc with any modifiers, c with Control
QuitEvents ==
    Press({"q", "Esc"}, KeyModifiers) \cup Press({"c"}, {{"CONTROL"}})

\* events that are not keys, keys that are not pressed, and pressed keys
\* outside the mapping, c without Control among them
IgnoredEvents ==
    OtherEvents
    \cup {e \in KeyEvents : e.kind # "Press"}
    \cup Press({"x", "Enter"}, KeyModifiers)
    \cup Press({"c"}, {m \in KeyModifiers : "CONTROL" \notin m})

\* the keys the mapping table gives each cursor operation
KeysOf ==
    [op \in Ops |->
        Press(CASE op = "next_row" -> {"s", "Down"}
                [] op = "previous_row" -> {"w", "Up"}
                [] op = "next_column" -> {"d", "Right"}
                [] op = "previous_column" -> {"a", "Left"},
              KeyModifiers)]

\* what run makes of the events of a set: a step of run reads an event of E
\* exactly when it is Handled(h) for some h of Outcomes(E)
Outcomes(E) == {handle(e) : e \in E}
QuitOutcomes == Outcomes(QuitEvents)
IgnoredOutcomes == Outcomes(IgnoredEvents)
MoveOutcomes == [op \in Ops |-> Outcomes(KeysOf[op])]

\* C11: a step of run that reads a press of q or Esc, or of c with Control,
\* returns Ok and applies no cursor operation; once run has returned Ok the
\* only step left is the restore of the terminal, which draws no frame and
\* reads no event, and main ends with the terminal restored once
C11_Quit ==
    /\ [][\A h \in QuitOutcomes :
            Handled(h) => /\ result' = "ok"
                          /\ pc' = "restore"
                          /\ app' = app
                          /\ trail' = trail
                          /\ frame' = frame]_vars
    /\ [][result = "ok" => /\ pc = "restore" /\ pc' = "exit"
                           /\ restored = 0 /\ restored' = 1
                           /\ result' = "ok"
                           /\ app' = app
                           /\ frame' = frame]_vars
    /\ []((result = "ok" /\ pc = "exit") => restored = 1)

\* run has returned Ok after cursor operations, and main has restored the
\* terminal and ended
C11_Witness ==
    /\ result = "ok"
    /\ pc = "exit"
    /\ restored = 1
    /\ Len(trail) = 3

\* C12: a step of run that reads a press of s or Down applies next_row once,
\* of w or Up previous_row, of d or Right next_column, of a or Left
\* previous_column, whatever the modifiers, and goes on with the loop; a
\* step that reads a quit key applies none of them
C12_KeyMapping ==
    /\ [][\A op \in Ops : \A h \in MoveOutcomes[op] :
            Handled(h)
            => /\ app' = (CASE op = "next_row" -> next_row(app)
                            [] op = "previous_row" -> previous_row(app)
                            [] op = "next_column" -> next_column(app)
                            [] op = "previous_column" -> previous_column(app))
               /\ trail' = push(trail, [op |-> op, before |-> app.placement])
               /\ pc' = "draw"
               /\ result' = "none"]_vars
    /\ [][\A h \in QuitOutcomes :
            Handled(h) => /\ app'.placement = app.placement
                          /\ trail' = trail]_vars

\* a key has just moved the cursor up from row 0 to row 2, and the loop is
\* about to draw
C12_Witness ==
    /\ pc = "draw"
    /\ result = "none"
    /\ trail # <<>>
    /\ Last.op = "previous_row"
    /\ Last.before[0] = 0
    /\ row = 2

\* C13: a step of run that reads an event that is no key, a key that is not
\* pressed, or a pressed key outside the mapping leaves the App and the
\* screen as they are and goes on with the loop, at the draw of the next
\* frame
C13_Ignored ==
    [][\A h \in IgnoredOutcomes :
          Handled(h) => /\ app' = app
                        /\ trail' = trail
                        /\ frame' = frame
                        /\ pc' = "draw"
                        /\ result' = "none"]_vars

\* after the first frame an event has been read and ignored: no operation
\* has been applied and the loop is about to draw again
C13_Witness ==
    /\ pc = "draw"
    /\ result = "none"
    /\ frame.widgets # <<>>
    /\ trail = <<>>
    /\ app.state.selected_column # None

----------------------------------------------------------------------------
(* The loop *)

\* C14: a step that draws a frame leaves placement and the row selection of
\* the table, which next_row and previous_row read, as they were
C14_DrawProjection ==
    [][pc = "draw" => /\ app'.placement = app.placement
                      /\ app'.state.selected = app.state.selected]_vars

\* C15: the loop alternates draw and read: a frame has been drawn before an
\* event is read, a draw that succeeds is followed by a read and a read
\* that does not end the loop by a draw, the step from draw to read puts
\* the frame of the current App on the screen, the cursor moves only in a
\* read step, which draws nothing, and the frame changes only in a draw
\* step (one that goes on to the read, or one that fails after App::draw
\* has run), which renders the current App and does not move the cursor
C15_LoopOrder ==
    /\ [](pc = "read" => frame.widgets # <<>>)
    /\ [][(pc = "draw" /\ result' = "none") => pc' = "read"]_vars
    /\ [][(pc = "read" /\ result' = "none") => pc' = "draw"]_vars
    /\ [][(pc = "draw" /\ pc' = "read") =>
             frame' = draw(app, frame'.area).frame]_vars
    /\ [][app'.placement # app.placement =>
             (pc = "read" /\ pc' = "draw" /\ frame' = frame)]_vars
    /\ [][frame' # frame =>
             /\ pc = "draw"
             /\ pc' = (IF failed' THEN "restore" ELSE "read")
             /\ frame' = draw(app, frame'.area).frame
             /\ app'.placement = app.placement]_vars

\* next_column then next_row have moved the cursor, and the frame drawn
\* since shows it where it is now
C15_Witness ==
    /\ pc = "read"
    /\ Pair("next_column", "next_row")
    /\ row # Back(0).before[0]
    /\ IsNormal(frame)
    /\ Highlighted(frame) = {<<row, column>>}

\* C16: once terminal.draw or event::read has failed, run has returned the
\* error: the step of the failure moves no cursor, a read that fails draws
\* nothing and a draw that fails has rendered at most its own frame (the
\* one App::draw makes of the current App), and the only step after the
\* failure is the restore of the terminal, which draws no frame and reads
\* no event, after which main returns the error
C16_Fatal ==
    /\ [](failed => (result = "err" /\ pc \in {"restore", "exit"}))
    /\ [][(~failed /\ failed') =>
             /\ pc' = "restore"
             /\ result' = "err"
             /\ app'.placement = app.placement
             /\ (pc = "read") => (frame' = frame /\ app' = app)
             /\ (pc = "draw") =>
                   ((frame' = frame /\ app' = app)
                    \/ (frame' = draw(app, frame'.area).frame
                        /\ app' = draw(app, frame'.area).self))
             /\ trail' = trail]_vars
    /\ [][failed => /\ pc = "restore" /\ pc' = "exit"
                    /\ result' = "err"
                    /\ app' = app
                    /\ frame' = frame
                    /\ trail' = trail]_vars

\* a read or a draw has failed after the cursor was moved, and main has
\* ended with the error
C16_Witness ==
    /\ failed
    /\ result = "err"
    /\ pc = "exit"
    /\ trail # <<>>

\* C17: the terminal is restored exactly once on every path out of run:
\* not while run is looping, only after run has returned Ok or Err, by a
\* step that draws and reads nothing, and main ends only after it
C17_Restore ==
    /\ [](pc \in {"draw", "read", "restore"} => restored = 0)
    /\ [](pc = "exit" => (restored = 1 /\ result \in {"ok", "err"}))
    /\ [](result # "none" => pc \in {"restore", "exit"})
    /\ [][restored' # restored =>
             /\ pc = "restore" /\ pc' = "exit"
             /\ result # "none" /\ result' = result
             /\ app' = app
             /\ frame' = frame]_vars
    /\ [][pc # "exit"]_vars

\* the draw of the first frame has failed, and main has restored the
\* terminal and ended
C17_Witness ==
    /\ pc = "exit"
    /\ result = "err"
    /\ restored = 1
    /\ frame.widgets = <<>>

\* C18: the frame just drawn in the normal view highlights the cell at
\* (placement[0], placement[1]) and no other, and the table selection is
\* then equal to placement
C18_Recomputed ==
    (pc = "read" /\ IsNormal(frame)) =>
        /\ Highlighted(frame) = {<<row, column>>}
        /\ app.state.selected = Some(row)
        /\ app.state.selected_column = Some(column)

\* the cursor has been moved on both axes since the start, the last time
\* across a wrap of the column, and a normal frame has been drawn since
C18_Witness ==
    /\ pc = "read"
    /\ IsNormal(frame)
    /\ Len(trail) = 3
    /\ Last.op = "previous_column"
    /\ Last.before[1] = 0
    /\ row # 1
    /\ app.state.selected_column = Some(2)

----------------------------------------------------------------------------
(* Two runs, and the layout *)

\* C19: two runs that are sent the same events, on terminals of any sizes,
\* have the same placement after every event
C19_SizeIndependent == twin.placement = app.placement

\* C20: in a frame drawn on an area of at least 30x10 the title rectangle
\* is 30 wide and 1 high, the table rectangle 30 wide and 9 high, the table
\* starts on the line below the title, both are centred in the width of the
\* area and the ten lines they make are centred in its height (to within
\* the odd cell), and both lie inside the area, one above the other
C20_Layout ==
    (frame.widgets # <<>> /\ frame.area.width >= 30 /\ frame.area.height >= 10) =>
        LET a == frame.area
            t == frame.widgets[1].area
            m == frame.widgets[2].area
            left == t.x - a.x
            right == (a.x + a.width) - (t.x + t.width)
            top == t.y - a.y
            bottom == (a.y + a.height) - (m.y + m.height)
        IN /\ frame.widgets[1].kind = "title" /\ frame.widgets[2].kind = "table"
           /\ t.width = 30 /\ t.height = 1
           /\ m.width = 30 /\ m.height = 9
           /\ m.x = t.x
           /\ m.y = t.y + 1
           /\ left >= 0 /\ right >= 0 /\ top >= 0 /\ bottom >= 0
           /\ left - right \in {-1, 0, 1}
           /\ top - bottom \in {-1, 0, 1}

\* a frame in the normal view on a terminal of 33x13, with odd room on
\* both axes
C20_Witness ==
    /\ IsNormal(frame)
    /\ frame.area.width = 33
    /\ frame.area.height = 13
    /\ frame.widgets[2].area.y > 1

====
